---- MODULE Spec2Model ----
(***************************************************************************)
(* A model of bin/index.js, the create-node-backend command line tool:     *)
(* project-name validation and collision resolution, the scaffolding of    *)
(* the project tree, and the offline-aware dependency installer.           *)
(*                                                                         *)
(* Strings that the program inspects character by character (the project   *)
(* name) are sequences of one-character strings; all other strings are     *)
(* TLA+ strings.  Non-ASCII glyphs of console messages are left out of the *)
(* message texts, and the two generated console.log lines that use a       *)
(* template literal are written with + instead, a backquote having no      *)
(* place in a string here.  stdin is taken to be a terminal, as the        *)
(* interactive prompts of main require; keys typed while stdin is paused   *)
(* (before the first wait) are not delivered to the program.               *)
(***************************************************************************)
EXTENDS Integers, Sequences, FiniteSets, TLC

(***************************************************************************)
(* Bounds of the model.                                                    *)
(***************************************************************************)
\* longest raw project name drawn over Alphabet (NameSpec)
MaxNameLen == 2
\* longest run base, base1, ..., base<MaxRun> of existing directories
MaxRun == 10
\* most injected file-system faults in one scaffolding run
MaxFaults == 1
\* most unreachable probes (hence armed waits) in one run
MaxRetries == 3
\* most injected file-system faults in one run of the scaffold-only
\* specification (ScaffoldSpec)
MaxScaffoldFaults == 3

Range(s) == {s[i] : i \in DOMAIN s}

(***************************************************************************)
(* Characters.  AsciiTable gives the code unit of every character the      *)
(* model uses; the character class of the name pattern is made of ranges   *)
(* over code units, as in the regular expression.                          *)
(***************************************************************************)
AsciiTable ==
  << <<"\n", 10>>, <<" ", 32>>, <<"-", 45>>, <<".", 46>>, <<"/", 47>>,
     <<"0", 48>>, <<"1", 49>>, <<"2", 50>>, <<"3", 51>>, <<"4", 52>>,
     <<"5", 53>>, <<"6", 54>>, <<"7", 55>>, <<"8", 56>>, <<"9", 57>>,
     <<":", 58>>, <<"@", 64>>, <<"A", 65>>, <<"Z", 90>>, <<"[", 91>>,
     <<"^", 94>>, <<"_", 95>>, <<"a", 97>>, <<"b", 98>>, <<"c", 99>>,
     <<"d", 100>>, <<"e", 101>>, <<"i", 105>>, <<"k", 107>>, <<"l", 108>>,
     <<"m", 109>>, <<"n", 110>>, <<"o", 111>>, <<"p", 112>>, <<"v", 118>>,
     <<"y", 121>>, <<"z", 122>>, <<"{", 123>> >>

Chars == {p[1] : p \in Range(AsciiTable)}

Code(c) == (CHOOSE p \in Range(AsciiTable) : p[1] = c)[2]

InRange(c, lo, hi) == Code(lo) <= Code(c) /\ Code(c) <= Code(hi)

\* the class [a-zA-Z0-9-_] of the pattern: three ranges and two literals
NameClass(c) ==
  \/ InRange(c, "a", "z")
  \/ InRange(c, "A", "Z")
  \/ InRange(c, "0", "9")
  \/ c = "-"
  \/ c = "_"

\* a pattern without the anchors ^ and $: some run of class characters
validateUnanchored(name) == \E i \in 1..Len(name) : NameClass(name[i])

\* /^[a-zA-Z0-9-_]+$/.test(name)
validateProjectName(name) ==
  /\ Len(name) >= 1
  /\ \A i \in 1..Len(name) : NameClass(name[i])

\* the safe default of main
FallbackName == <<"m","y","-","b","a","c","k","e","n","d","-","a","p","p">>

\* the name main hands to getAvailableProjectName
validatedName(raw) == IF ~validateProjectName(raw) THEN FallbackName ELSE raw

(***************************************************************************)
(* Number to string, as the template literal of getAvailableProjectName    *)
(* formats the counter: decimal, no sign, no leading zero.                 *)
(***************************************************************************)
DigitChar(d) == <<"0","1","2","3","4","5","6","7","8","9">>[d + 1]

RECURSIVE NumberToString(_)
NumberToString(n) ==
  IF n < 10 THEN <<DigitChar(n)>>
  ELSE NumberToString(n \div 10) \o <<DigitChar(n % 10)>>

\* the loop of getAvailableProjectName from the state (name, counter)
RECURSIVE availableLoop(_, _, _, _)
availableLoop(baseName, name, counter, exists) ==
  IF name \in exists
  THEN availableLoop(baseName, baseName \o NumberToString(counter),
                     counter + 1, exists)
  ELSE name

\* a loop that appends the counter to the previous candidate
RECURSIVE availableLoopAppend(_, _, _, _)
availableLoopAppend(baseName, name, counter, exists) ==
  IF name \in exists
  THEN availableLoopAppend(baseName, name \o NumberToString(counter),
                           counter + 1, exists)
  ELSE name

getAvailableProjectNameAppend(baseName, exists) ==
  availableLoopAppend(baseName, baseName, 1, exists)

\* getAvailableProjectName; exists is the set of names fs.existsSync flags
getAvailableProjectName(baseName, exists) ==
  availableLoop(baseName, baseName, 1, exists)

(***************************************************************************)
(* The prompt's closed choices and the package table.                      *)
(***************************************************************************)
Frameworks == {"express", "fastify", "hono"}
Databases == {"mongodb", "postgres", "mysql", "none"}

packages ==
  [express   |-> <<"express", "dotenv", "cors">>,
   fastify   |-> <<"fastify", "dotenv", "cors">>,
   hono      |-> <<"hono", "dotenv">>,
   sequelize |-> <<"sequelize", "pg", "mysql2">>,
   dev       |-> <<"typescript", "@types/node", "@types/express", "ts-node-dev">>]

extOf(useTS) == IF useTS THEN "ts" ELSE "js"

importExtOf(ext) == IF ext = "ts" THEN "" ELSE ".js"

(***************************************************************************)
(* Templates.  A generated source file is the sequence of its lines.       *)
(***************************************************************************)
importDBLine(ext) ==
  "import { connectDB } from './config/db" \o importExtOf(ext) \o "';"

\* importDB and connectCall of getIndexTemplate: a line each, or nothing
importDB(ext, db) == IF db # "none" THEN <<importDBLine(ext)>> ELSE <<>>

connectCall(db) == IF db # "none" THEN <<"connectDB();">> ELSE <<>>

expressIndex(ext, db) ==
  <<"import express from 'express';",
    "import dotenv from 'dotenv';">>
  \o importDB(ext, db) \o
  <<"import userRoutes from './routes/user.route" \o importExtOf(ext) \o "';",
    "",
    "dotenv.config();",
    "",
    "const app = express();",
    "app.use(express.json());",
    "app.use('/api/users', userRoutes);",
    "",
    "app.get('/', (req, res) => {",
    "  res.json({ message: 'Hello from Create Node Backend CLI' });",
    "});",
    "",
    "app.listen(process.env.PORT || 5000, () => {",
    "  console.log('Server running on http://localhost:' + (process.env.PORT || 5000));",
    "});",
    "">>
  \o connectCall(db)

fastifyIndex(ext, db) ==
  <<"import Fastify from 'fastify';",
    "import dotenv from 'dotenv';">>
  \o importDB(ext, db) \o
  <<"dotenv.config();",
    "",
    "const app = Fastify();",
    "app.get('/', async () => ({ hello: 'world' }));",
    "",
    "app.listen({ port: Number(process.env.PORT) || 5000 }, (err, address) => {",
    "  if (err) throw err;",
    "  console.log('Server listening at ' + address);",
    "});",
    "">>
  \o connectCall(db)

honoIndex ==
  <<"import { Hono } from 'hono';",
    "import { serve } from '@hono/node-server';",
    "import dotenv from 'dotenv';",
    "",
    "dotenv.config();",
    "",
    "const app = new Hono();",
    "app.get('/', (c) => c.json({ message: 'Hello from Hono' }));",
    "",
    "serve({ fetch: app.fetch, port: Number(process.env.PORT) || 5000 });">>

getIndexTemplate(framework, ext, db) ==
  CASE framework = "express" -> expressIndex(ext, db)
    [] framework = "fastify" -> fastifyIndex(ext, db)
    [] framework = "hono"    -> honoIndex

getDBTemplate(db, ext) ==
  IF db = "mongodb" THEN
    <<"import mongoose from 'mongoose';",
      "",
      "export const connectDB = async () => {",
      "  try {",
      "    await mongoose.connect(process.env.MONGO_URI"
          \o (IF ext = "ts" THEN "!" ELSE "") \o ");",
      "    console.log('MongoDB connected');",
      "  } catch (err) {",
      "    console.error('DB connection error:', err);",
      "    process.exit(1);",
      "  }",
      "};">>
  ELSE IF db \in {"postgres", "mysql"} THEN
    <<"import { Sequelize } from 'sequelize';",
      "",
      "export const sequelize = new Sequelize(process.env.DB_URI"
          \o (IF ext = "ts" THEN "!" ELSE "") \o ");",
      "",
      "export const connectDB = async () => {",
      "  try {",
      "    await sequelize.authenticate();",
      "    console.log('SQL DB connected');",
      "  } catch (err) {",
      "    console.error('DB connection error:', err);",
      "    process.exit(1);",
      "  }",
      "};">>
  ELSE <<"// No DB config">>

getModel(db, ext) ==
  IF db = "mongodb" THEN
    <<"import mongoose from 'mongoose';",
      "",
      "const userSchema = new mongoose.Schema({",
      "  email: { type: String, required: true, unique: true },",
      "  password: { type: String, required: true }",
      "});",
      "",
      "export const User = mongoose.model('User', userSchema);">>
  ELSE
    <<"import { DataTypes } from 'sequelize';",
      "import { sequelize } from '../config/db" \o importExtOf(ext) \o "';",
      "",
      "export const User = sequelize.define('User', {",
      "  id: { type: DataTypes.INTEGER, autoIncrement: true, primaryKey: true },",
      "  email: { type: DataTypes.STRING, allowNull: false, unique: true },",
      "  password: { type: DataTypes.STRING, allowNull: false }",
      "});">>

getController(ext) ==
  IF ext = "ts" THEN
    <<"import { Request, Response } from 'express';",
      "import { User } from '../models/user.model';",
      "",
      "export const getAllUsers = async (req: Request, res: Response) => {",
      "  const users = await User.findAll();",
      "  res.json(users);",
      "};">>
  ELSE
    <<"import { User } from '../models/user.model" \o importExtOf(ext) \o "';",
      "",
      "export const getAllUsers = async (req, res) => {",
      "  const users = await User.findAll();",
      "  res.json(users);",
      "};">>

getRoute(ext) ==
  IF ext = "ts" THEN
    <<"import { Router } from 'express';",
      "import { getAllUsers } from '../controllers/user.controller';",
      "",
      "const router = Router();",
      "router.get('/', getAllUsers);",
      "export default router;">>
  ELSE
    <<"import { Router } from 'express';",
      "import { getAllUsers } from '../controllers/user.controller"
          \o importExtOf(ext) \o "';",
      "",
      "const router = Router();",
      "router.get('/', getAllUsers);",
      "export default router;">>

\* the .env text: PORT, then the connection variable of the database
envContent(db, projectName) ==
  <<"PORT=5000">> \o
  (IF db = "mongodb"
     THEN << <<"MONGO_URI=mongodb://localhost:27017/", projectName>> >>
     ELSE IF db \in {"postgres", "mysql"} THEN <<"DB_URI=db-url">>
     ELSE <<"">>)

\* pkgJson of main; JSON.stringify drops the undefined type of the TS variant
pkgJson(projectName, useTS) ==
  LET common ==
        [name            |-> projectName,
         version         |-> "1.0.0",
         main            |-> "src/index." \o extOf(useTS),
         scripts         |->
           [dev   |-> IF useTS
                        THEN "ts-node-dev --respawn --transpile-only src/index.ts"
                        ELSE "node --watch src/index.js",
            start |-> IF useTS
                        THEN "ts-node-dev --respawn --transpile-only src/index.ts"
                        ELSE "node src/index.js"],
         dependencies    |-> <<>>,
         devDependencies |-> <<>>]
  IN IF useTS THEN common
     ELSE [k \in DOMAIN common \cup {"type"} |->
             IF k = "type" THEN "module" ELSE common[k]]

gitignoreContent == <<"node_modules", ".env", ".env.local", "dist", "">>

readmeContent(projectName) ==
  << <<"# ", projectName>>, "Generated with Create Node Backend CLI">>

tsconfigContent ==
  [compilerOptions |->
     [target          |-> "ES2020",
      module          |-> "commonjs",
      outDir          |-> "dist",
      rootDir         |-> "src",
      strict          |-> TRUE,
      esModuleInterop |-> TRUE,
      skipLibCheck    |-> TRUE],
   include |-> <<"src">>,
   exclude |-> <<"node_modules", "dist">>]

(***************************************************************************)
(* The file system under the project directory: dirs, the directories that *)
(* exist (named relative to the project directory, "" being the project    *)
(* directory itself); files, the files written, with their contents;       *)
(* errors, the console.error lines of write and createFolder; calls, the   *)
(* paths main handed to write and createFolder, in order.  A fault is      *)
(* an fs call that throws for a reason outside the program; writing into a *)
(* directory that does not exist throws as well.                           *)
(***************************************************************************)
EmptyFS == [dirs |-> {}, files |-> <<>>, errors |-> <<>>, calls |-> <<>>]

\* the directories fs.mkdirSync(dir, { recursive: true }) leaves in place
Ancestors(dir) ==
  CASE dir = ""    -> {""}
    [] dir = "src" -> {"", "src"}
    [] OTHER       -> {"", "src", dir}

joinPath(dir, name) == IF dir = "" THEN name ELSE dir \o "/" \o name

\* write(filePath, content)
write(fs, dir, name, content, fault) ==
  IF fault \/ dir \notin fs.dirs
  THEN [fs EXCEPT !.errors =
          Append(@, [what |-> "Failed to write file",
                     path |-> joinPath(dir, name)])]
  ELSE [fs EXCEPT !.files = (joinPath(dir, name) :> content) @@ @]

\* createFolder(folderPath)
createFolder(fs, dir, fault) ==
  IF fault
  THEN [fs EXCEPT !.errors =
          Append(@, [what |-> "Failed to create folder", path |-> dir])]
  ELSE [fs EXCEPT !.dirs = @ \cup Ancestors(dir)]

MkdirOp(dir) == [op |-> "mkdir", dir |-> dir, name |-> "", content |-> <<>>]

WriteOp(dir, name, content) ==
  [op |-> "write", dir |-> dir, name |-> name, content |-> content]

\* the dirs array of main
scaffoldDirs == <<"src/config", "src/models", "src/controllers", "src/routes">>

\* fs calls that write controller and route for every framework
scaffoldOpsAlwaysMvc(projectName, framework, db, useTS) ==
  LET ext == extOf(useTS) IN
  <<MkdirOp("")>>
  \o [i \in 1..Len(scaffoldDirs) |-> MkdirOp(scaffoldDirs[i])]
  \o <<WriteOp("src", "index." \o ext, getIndexTemplate(framework, ext, db))>>
  \o (IF db # "none"
        THEN <<WriteOp("src/config", "db." \o ext, getDBTemplate(db, ext)),
               WriteOp("src/models", "user.model." \o ext, getModel(db, ext)),
               WriteOp("src/controllers", "user.controller." \o ext,
                       getController(ext)),
               WriteOp("src/routes", "user.route." \o ext, getRoute(ext))>>
        ELSE <<>>)
  \o <<WriteOp("", ".env", envContent(db, projectName)),
       WriteOp("", "package.json", pkgJson(projectName, useTS)),
       WriteOp("", ".gitignore", gitignoreContent),
       WriteOp("", "README.md", readmeContent(projectName))>>
  \o (IF useTS THEN <<WriteOp("", "tsconfig.json", tsconfigContent)>> ELSE <<>>)

\* the fs calls of main, in program order
scaffoldOps(projectName, framework, db, useTS) ==
  LET ext == extOf(useTS) IN
  <<MkdirOp("")>>
  \o [i \in 1..Len(scaffoldDirs) |-> MkdirOp(scaffoldDirs[i])]
  \o <<WriteOp("src", "index." \o ext, getIndexTemplate(framework, ext, db))>>
  \o (IF db # "none"
        THEN <<WriteOp("src/config", "db." \o ext, getDBTemplate(db, ext)),
               WriteOp("src/models", "user.model." \o ext, getModel(db, ext))>>
             \o (IF framework = "express"
                   THEN <<WriteOp("src/controllers", "user.controller." \o ext,
                                  getController(ext)),
                          WriteOp("src/routes", "user.route." \o ext,
                                  getRoute(ext))>>
                   ELSE <<>>)
        ELSE <<>>)
  \o <<WriteOp("", ".env", envContent(db, projectName)),
       WriteOp("", "package.json", pkgJson(projectName, useTS)),
       WriteOp("", ".gitignore", gitignoreContent),
       WriteOp("", "README.md", readmeContent(projectName))>>
  \o (IF useTS THEN <<WriteOp("", "tsconfig.json", tsconfigContent)>> ELSE <<>>)

applyOp(fs, o, fault) ==
  LET path == IF o.op = "mkdir" THEN o.dir ELSE joinPath(o.dir, o.name)
      called == [fs EXCEPT !.calls = Append(@, path)] IN
  IF o.op = "mkdir" THEN createFolder(called, o.dir, fault)
  ELSE write(called, o.dir, o.name, o.content, fault)

\* calls without try/catch: the first call that throws ends the sequence
RECURSIVE runOpsAbortOnFault(_, _, _, _)
runOpsAbortOnFault(fs, ops, i, faults) ==
  IF i > Len(ops) THEN fs
  ELSE LET after == applyOp(fs, ops[i], i \in faults) IN
       IF Len(after.errors) > Len(fs.errors) THEN after
       ELSE runOpsAbortOnFault(after, ops, i + 1, faults)

\* the state of the file system after ops[i..], faults being the indices of
\* the calls that throw
RECURSIVE runOps(_, _, _, _)
runOps(fs, ops, i, faults) ==
  IF i > Len(ops) THEN fs
  ELSE runOps(applyOp(fs, ops[i], i \in faults), ops, i + 1, faults)

\* the sets of at most k of the calls 1..n
RECURSIVE FaultSets(_, _)
FaultSets(n, k) ==
  IF k = 0 THEN {{}}
  ELSE LET fewer == FaultSets(n, k - 1) IN
       fewer \cup {f \cup {i} : f \in fewer, i \in 1..n}

\* deps and devDeps of main as first built
initialDeps(framework, db) ==
  packages[framework]
  \o (IF db = "mongodb" THEN <<"mongoose">> ELSE <<>>)
  \o (IF db \in {"postgres", "mysql"} THEN packages.sequelize ELSE <<>>)

initialDevDeps(useTS) == IF useTS THEN packages.dev ELSE <<>>

\* the pushes repeated after the "Installing dependencies" message
repeatedPushes(deps, db) ==
  deps
  \o (IF db = "mongodb" THEN <<"mongoose">> ELSE <<>>)
  \o (IF db \in {"postgres", "mysql"} THEN packages.sequelize ELSE <<>>)

(***************************************************************************)
(* State.                                                                  *)
(*   pc           where main is: "validate", "resolve", "scaffold",         *)
(*                "install", and "returned" once installDeps was called    *)
(*   answers      what the prompt returned                                 *)
(*   projectName  the variable projectName of main                         *)
(*   existing     the names that exist in the current working directory    *)
(*   fs           the project tree (see EmptyFS)                           *)
(*   deps, devDeps the arrays of main                                      *)
(*   state        the phase of installDeps: "IDLE" before its first call,   *)
(*                "PROBING" while checkNetwork is awaited, "WAITING" while  *)
(*                the retry timer is armed, "INSTALLING" from the          *)
(*                "Internet detected" message on, "DONE" at the exit that  *)
(*                follows the success messages, "CANCELLED" at the exit of *)
(*                the stdin listener                                       *)
(*   requests     https requests of checkNetwork in flight                 *)
(*   timers       armed setTimeout(installDeps, 5000) timers               *)
(*   child        the npm process execSync is blocked on, or "none"        *)
(*   listeners    "data" listeners registered on process.stdin             *)
(*   flowing      process.stdin is in raw mode and resumed                 *)
(*   invoked      the package-manager invocations made, with their outcome *)
(*   printed      the console messages of main and installDeps             *)
(*   exited, exitCode  process.exit was called, and with what              *)
(*   registryOk   the registry would answer 200 within the probe timeout   *)
(***************************************************************************)
VARIABLES pc, answers, projectName, existing, fs, deps, devDeps,
          state, requests, timers, child, listeners, flowing,
          invoked, printed, exited, exitCode, registryOk

vars == <<pc, answers, projectName, existing, fs, deps, devDeps,
          state, requests, timers, child, listeners, flowing,
          invoked, printed, exited, exitCode, registryOk>>

mainVars == <<pc, answers, projectName, existing, fs, deps, devDeps>>
driverVars == <<state, requests, timers, child, listeners, flowing,
                invoked, printed, exited, exitCode>>

\* chunks a key press delivers to the stdin listener
Keys == {"q", "Q", "x", "\r"}

toLowerCase(k) == IF k = "Q" THEN "q" ELSE k

(***************************************************************************)
(* Inputs.                                                                  *)
(***************************************************************************)
Demo == <<"d","e","m","o">>
Evil == <<".",".","/","e","v","i","l">>

\* base, base1, ..., base<n>
Run(base, n) == {base} \cup {base \o NumberToString(k) : k \in 1..n}

\* the names and directory listings of the whole-program specification
SpecInputs ==
  {<<Demo, {}>>, <<Demo, Run(Demo, 1)>>, <<Evil, {FallbackName}>>}

Alphabet == {"a", "Z", "7", "-", "_", "/", ".", " "}

RECURSIVE SeqsUpTo(_)
SeqsUpTo(n) ==
  IF n = 0 THEN {<<>>}
  ELSE LET shorter == SeqsUpTo(n - 1) IN
       shorter \cup {Append(w, c) : w \in {v \in shorter : Len(v) = n - 1},
                                    c \in Alphabet}

BoundedNames == SeqsUpTo(MaxNameLen) \cup {Demo, Evil, Append(Demo, "\n")}

\* for a raw name: runs of taken names over the name and over the fallback,
\* whole or with one name missing
ExistingFor(raw) ==
  {{}} \cup
  UNION {{Run(b, n) \ h : h \in {{}} \cup {{x} : x \in Run(b, n)}} :
           b \in {raw, FallbackName}, n \in 0..MaxRun}

AnswerSets(names) ==
  [projectName : names, framework : Frameworks, db : Databases,
   useTS : BOOLEAN]

InitWith(a, ex) ==
  /\ pc = "validate"
  /\ answers = a
  /\ projectName = a.projectName
  /\ existing = ex
  /\ fs = EmptyFS
  /\ deps = <<>>
  /\ devDeps = <<>>
  /\ state = "IDLE"
  /\ requests = 0
  /\ timers = 0
  /\ child = "none"
  /\ listeners = 0
  /\ flowing = FALSE
  /\ invoked = <<>>
  /\ printed = <<>>
  /\ exited = FALSE
  /\ exitCode = 0

Init ==
  /\ registryOk \in BOOLEAN
  /\ \E inp \in SpecInputs :
       \E a \in AnswerSets({inp[1]}) : InitWith(a, inp[2])

NameInit ==
  /\ registryOk = TRUE
  /\ \E a \in [projectName : BoundedNames, framework : {"hono"},
               db : {"none"}, useTS : {FALSE}] :
       \E ex \in ExistingFor(a.projectName) : InitWith(a, ex)

(***************************************************************************)
(* main                                                                    *)
(***************************************************************************)
\* if (!validateProjectName(projectName)) { ...; projectName = default }
ValidateName ==
  /\ pc = "validate" /\ ~exited
  /\ projectName' = validatedName(projectName)
  /\ printed' = IF validateProjectName(projectName) THEN printed
                ELSE Append(printed, "Invalid project name, using safe default.")
  /\ pc' = "resolve"
  /\ UNCHANGED <<answers, existing, fs, deps, devDeps, state, requests,
                 timers, child, listeners, flowing, invoked, exited,
                 exitCode, registryOk>>

\* projectName = getAvailableProjectName(projectName)
ResolveName ==
  /\ pc = "resolve" /\ ~exited
  /\ projectName' = getAvailableProjectName(projectName, existing)
  /\ pc' = "scaffold"
  /\ UNCHANGED <<answers, existing, fs, deps, devDeps, driverVars,
                 registryOk>>

\* from const ext to the write of tsconfig.json, with deps and devDeps;
\* at most maxFaults of the fs calls throw for an outside reason
ScaffoldWith(maxFaults) ==
  /\ pc = "scaffold" /\ ~exited
  /\ LET ops == scaffoldOps(projectName, answers.framework, answers.db,
                            answers.useTS)
     IN \E faults \in FaultSets(Len(ops), maxFaults) :
          LET after == runOps(fs, ops, 1, faults) IN
            /\ fs' = after
            /\ existing' = IF "" \in after.dirs
                             THEN existing \cup {projectName}
                             ELSE existing
  /\ deps' = initialDeps(answers.framework, answers.db)
  /\ devDeps' = initialDevDeps(answers.useTS)
  /\ pc' = "install"
  /\ UNCHANGED <<answers, projectName, driverVars, registryOk>>

Scaffold == ScaffoldWith(MaxFaults)

\* the first statement of installDeps: checkNetwork() sends its request
callInstallDeps ==
  /\ requests' = requests + 1
  /\ state' = "PROBING"

\* "Installing dependencies...", the repeated pushes, installDeps()
StartInstall ==
  /\ pc = "install" /\ ~exited
  /\ printed' = Append(printed, "Installing dependencies...")
  /\ deps' = repeatedPushes(deps, answers.db)
  /\ callInstallDeps
  /\ pc' = "returned"
  /\ UNCHANGED <<answers, projectName, existing, fs, devDeps, timers, child,
                 listeners, flowing, invoked, exited, exitCode, registryOk>>

(***************************************************************************)
(* installDeps                                                             *)
(***************************************************************************)
\* the command line runCommand is given
commandLine(dev) == IF dev THEN "npm install -D" ELSE "npm install"

\* a runCommand whose catch block logs and returns
runCommandNoExit(dev, pkgs, ok) ==
  [invoked  |-> Append(invoked, [cmd |-> commandLine(dev), pkgs |-> pkgs,
                                 ok |-> ok]),
   printed  |-> IF ok THEN printed
                ELSE Append(printed, "Failed to run: " \o commandLine(dev)),
   exited   |-> FALSE,
   exitCode |-> exitCode]

\* runCommand(cmd, cwd): what it leaves of invoked, printed, exited, exitCode
\* when execSync returns (ok) or throws (~ok)
runCommand(dev, pkgs, ok) ==
  [invoked  |-> Append(invoked, [cmd |-> commandLine(dev), pkgs |-> pkgs,
                                 ok |-> ok]),
   printed  |-> IF ok THEN printed
                ELSE Append(printed, "Failed to run: " \o commandLine(dev)),
   exited   |-> ~ok,
   exitCode |-> IF ok THEN exitCode ELSE 1]

\* the success messages and process.exit(0), after r, the last runCommand
finishInstall(r) ==
  /\ invoked' = r.invoked
  /\ printed' = r.printed \o <<"Project is ready!", "cd && npm run dev">>
  /\ exited' = TRUE
  /\ exitCode' = 0
  /\ state' = "DONE"
  /\ child' = "none"

\* process.exit(1) inside runCommand: installDeps never resumes
abortInstall(r) ==
  /\ invoked' = r.invoked
  /\ printed' = r.printed
  /\ exited' = TRUE
  /\ exitCode' = r.exitCode
  /\ state' = state
  /\ child' = "none"

\* an unreachable branch that returns without setTimeout
unreachableBranchNoTimer ==
  /\ printed' = printed \o <<"No internet connection.",
                             "Retrying in 5s... (press 'q' to quit)">>
  /\ flowing' = TRUE
  /\ listeners' = listeners + 1
  /\ timers' = timers
  /\ requests' = requests - 1
  /\ state' = "WAITING"

\* if (!online) { ... setTimeout(installDeps, 5000); return; }
unreachableBranch ==
  /\ printed' = printed \o <<"No internet connection.",
                             "Retrying in 5s... (press 'q' to quit)">>
  /\ flowing' = TRUE
  /\ listeners' = listeners + 1
  /\ timers' = timers + 1
  /\ requests' = requests - 1
  /\ state' = "WAITING"

\* checkNetwork resolves false (error, non-200 or timeout)
NetworkUnreachable ==
  /\ state = "PROBING" /\ requests > 0 /\ ~exited
  /\ ~registryOk
  /\ listeners < MaxRetries
  /\ unreachableBranch
  /\ UNCHANGED <<mainVars, child, invoked, exited, exitCode, registryOk>>

\* checkNetwork resolves true: the first runCommand starts npm and blocks
NetworkReachable ==
  /\ state = "PROBING" /\ requests > 0 /\ ~exited
  /\ registryOk
  /\ printed' = Append(printed, "Internet detected, installing packages...")
  /\ requests' = requests - 1
  /\ state' = "INSTALLING"
  /\ child' = "runtime"
  /\ UNCHANGED <<mainVars, timers, listeners, flowing, invoked, exited,
                 exitCode, registryOk>>

\* the retry timer fires: installDeps runs again
TimerFire ==
  /\ timers > 0 /\ ~exited
  /\ timers' = timers - 1
  /\ callInstallDeps
  /\ UNCHANGED <<mainVars, child, listeners, flowing, invoked, printed,
                 exited, exitCode, registryOk>>

\* npm install <deps> ends; then the dev install starts, or installDeps ends
RuntimeInstallExit(ok) ==
  /\ child = "runtime" /\ ~exited
  /\ LET r == runCommand(FALSE, deps, ok) IN
       IF r.exited THEN abortInstall(r)
       ELSE IF Len(devDeps) # 0
         THEN /\ invoked' = r.invoked
              /\ printed' = r.printed
              /\ child' = "dev"
              /\ UNCHANGED <<state, exited, exitCode>>
         ELSE finishInstall(r)
  /\ UNCHANGED <<mainVars, requests, timers, listeners, flowing, registryOk>>

\* npm install -D <devDeps> ends
DevInstallExit(ok) ==
  /\ child = "dev" /\ ~exited
  /\ LET r == runCommand(TRUE, devDeps, ok) IN
       IF r.exited THEN abortInstall(r) ELSE finishInstall(r)
  /\ UNCHANGED <<mainVars, requests, timers, listeners, flowing, registryOk>>

\* a chunk reaches the "data" listeners: stdin flows, a listener is
\* registered, and the event loop is not blocked in execSync
keyHeard == flowing /\ listeners > 0 /\ child = "none"

\* the exit of the stdin listener
quitExitCode == 0

\* a key is pressed; the listener quits on q
KeyPress(key) ==
  /\ ~exited
  /\ IF keyHeard /\ toLowerCase(key) = "q"
       THEN /\ printed' = Append(printed, "Quit installation watcher.")
            /\ exited' = TRUE
            /\ exitCode' = quitExitCode
            /\ state' = "CANCELLED"
       ELSE UNCHANGED <<printed, exited, exitCode, state>>
  /\ UNCHANGED <<mainVars, requests, timers, child, listeners, flowing,
                 invoked, registryOk>>

\* the registry becomes reachable or unreachable
RegistryChange ==
  /\ ~exited
  /\ registryOk' = ~registryOk
  /\ UNCHANGED <<mainVars, driverVars>>

Next ==
  \/ ValidateName
  \/ ResolveName
  \/ Scaffold
  \/ StartInstall
  \/ NetworkUnreachable
  \/ NetworkReachable
  \/ TimerFire
  \/ \E ok \in BOOLEAN : RuntimeInstallExit(ok)
  \/ \E ok \in BOOLEAN : DevInstallExit(ok)
  \/ \E key \in Keys : KeyPress(key)
  \/ RegistryChange

Spec == Init /\ [][Next]_vars

NameNext == ValidateName \/ ResolveName

NameSpec == NameInit /\ [][NameNext]_vars

\* main alone, up to the call of installDeps, with more faults
ScaffoldNext ==
  \/ ValidateName
  \/ ResolveName
  \/ ScaffoldWith(MaxScaffoldFaults)
  \/ StartInstall

ScaffoldSpec == Init /\ [][ScaffoldNext]_vars

\* a callback of the driver, as opposed to a step of the user or the network
DriverStep ==
  \/ NetworkUnreachable
  \/ NetworkReachable
  \/ TimerFire
  \/ \E ok \in BOOLEAN : RuntimeInstallExit(ok)
  \/ \E ok \in BOOLEAN : DevInstallExit(ok)

\* the event loop runs the callback that is due: the probe answers or times
\* out after 3 s, the timer fires after 5 s, npm ends
Fairness == WF_vars(DriverStep)

FairSpec == Init /\ [][Next]_vars /\ Fairness

(***************************************************************************)
(* Properties of the install driver.                                       *)
(***************************************************************************)
\* how many of {probe, wait timer, install} are active
ActiveCount == requests + timers + (IF child # "none" THEN 1 ELSE 0)

SomeInstallFailed == \E i \in DOMAIN invoked : ~invoked[i].ok

\* C1: the driver only takes the transitions PROBING -> INSTALLING (probe
\* reachable), PROBING -> WAITING (probe unreachable), WAITING -> PROBING
\* (timer fires), WAITING -> CANCELLED (user cancels) and INSTALLING -> DONE
\* (every invocation succeeded), the first PROBING being entered from the
\* call of installDeps; and at most one of probe, timer, install is active.
C1_OnlyListedTransitions ==
  /\ [][\/ state' = state
        \/ state = "IDLE" /\ state' = "PROBING"
        \/ state = "PROBING" /\ state' = "INSTALLING" /\ registryOk
        \/ state = "PROBING" /\ state' = "WAITING" /\ ~registryOk
        \/ state = "WAITING" /\ state' = "PROBING" /\ timers' = timers - 1
        \/ state = "WAITING" /\ state' = "CANCELLED"
        \/ state = "INSTALLING" /\ state' = "DONE" /\ ~SomeInstallFailed']_vars
  /\ [](ActiveCount <= 1)

\* C2: a q terminates the process only when it arrives in WAITING; a q
\* that arrives in PROBING or INSTALLING never does; and INSTALLING is left
\* only for DONE (or ends in place with the fatal exit).
C2_CancelOnlyWhileWaiting ==
  [][/\ \A key \in {"q", "Q"} :
          (KeyPress(key) /\ exited') => state = "WAITING"
     /\ state = "INSTALLING" => state' \in {"INSTALLING", "DONE"}]_vars

\* C3: exit status 0 for DONE, non-zero for a failed package-manager
\* invocation, and for cancellation a non-zero status that differs from the
\* status of success.
C3_ExitStatusDistinguishes ==
  exited =>
    /\ state = "DONE" => exitCode = 0
    /\ SomeInstallFailed => exitCode # 0
    /\ state = "CANCELLED" => exitCode # 0

\* C4: a failed invocation is the last one made (no dev install after a
\* failed runtime install, no retry), the success message is not printed,
\* the driver is not back in PROBING or WAITING with a probe or a timer
\* pending, and the process has ended with a non-zero status.
C4_InstallFailureIsFatal ==
  \A i \in DOMAIN invoked :
    ~invoked[i].ok =>
      /\ i = Len(invoked)
      /\ exited /\ exitCode # 0
      /\ state = "INSTALLING"
      /\ child = "none" /\ requests = 0 /\ timers = 0
      /\ "Project is ready!" \notin Range(printed)

\* the runtime install failed while development dependencies were pending
C4_Witness ==
  /\ Len(invoked) = 1 /\ ~invoked[1].ok
  /\ Len(devDeps) # 0
  /\ exited

\* C5: the retry loop itself never ends the process (the process ends only
\* in DONE, in CANCELLED or by the fatal exit of INSTALLING); every wait is
\* followed by another probe unless the user cancels; and, the timer and
\* the probe being fair, a driver that probes or waits while the registry
\* stays reachable enters INSTALLING unless the user cancels.
C5_RetryUntilReachableOrCancelled ==
  /\ [](exited => state \in {"DONE", "CANCELLED", "INSTALLING"})
  /\ [](state \in {"PROBING", "WAITING"} => ~exited /\ ActiveCount = 1)
  /\ (state = "WAITING" ~> state \in {"PROBING", "CANCELLED"})
  /\ (<>[]registryOk =>
        [](state \in {"PROBING", "WAITING"} =>
             <>(state \in {"INSTALLING", "CANCELLED"})))

\* the install started after two waits
C5_Witness == state = "INSTALLING" /\ listeners >= 2 /\ ~exited

(***************************************************************************)
(* Properties of the scaffold.                                             *)
(***************************************************************************)
NoWriteFailures ==
  \A i \in DOMAIN fs.errors : fs.errors[i].what # "Failed to write file"

\* the file set of the claim, for the answers of the prompt
C6_ExpectedFiles ==
  LET ext == IF answers.useTS THEN "ts" ELSE "js" IN
  {"src/index." \o ext, ".env", "package.json", ".gitignore", "README.md"}
  \cup (IF answers.db # "none"
          THEN {"src/config/db." \o ext, "src/models/user.model." \o ext}
          ELSE {})
  \cup (IF answers.db # "none" /\ answers.framework = "express"
          THEN {"src/controllers/user.controller." \o ext,
                "src/routes/user.route." \o ext}
          ELSE {})
  \cup (IF answers.useTS THEN {"tsconfig.json"} ELSE {})

\* C6: once the scaffold has run without a write failure, the files written
\* are exactly src/index.<ext>, .env, package.json, .gitignore, README.md,
\* plus db and model iff a database was chosen, plus controller and route
\* iff a database was chosen with express, plus tsconfig.json iff ts.
C6_FileSetExact ==
  (pc \in {"install", "returned"} /\ NoWriteFailures)
    => DOMAIN fs.files = C6_ExpectedFiles

\* all ten files written, a directory creation having failed on the way
C6_Witness ==
  /\ pc = "install" /\ NoWriteFailures
  /\ Len(fs.errors) = 1
  /\ Cardinality(DOMAIN fs.files) = 10

(***************************************************************************)
(* Properties of the project name.                                         *)
(***************************************************************************)
\* the characters [A-Za-z0-9_-] denotes, among Chars
PatternChars ==
  {"a", "b", "c", "d", "e", "i", "k", "l", "m", "n", "o", "p", "v", "y", "z",
   "A", "Z", "0", "1", "2", "3", "4", "5", "6", "7", "8", "9", "_", "-"}

MatchesPattern(name) == name # <<>> /\ Range(name) \subseteq PatternChars

\* base itself when free, else base followed by the least k >= 1 whose
\* candidate is free
SmallestFree(base, flagged) ==
  IF base \notin flagged THEN base
  ELSE LET free(k) == base \o NumberToString(k) \notin flagged
           k == CHOOSE n \in 1..(Cardinality(flagged) + 1) :
                  free(n) /\ \A j \in 1..(n - 1) : ~free(j)
       IN base \o NumberToString(k)

\* C7: the resolution step returns base when base is not flagged, else base
\* followed by the smallest k >= 1 such that base+k is not flagged, and
\* never a flagged name.
C7_SmallestFreeSuffix ==
  [][pc = "resolve" =>
       /\ projectName' = SmallestFree(projectName, existing)
       /\ projectName' \notin existing]_vars

\* demo, demo1, ..., demo10 exist and demo11 is returned
C7_Witness ==
  /\ pc = "scaffold"
  /\ existing = Run(Demo, 10)
  /\ projectName = Demo \o <<"1", "1">>

\* C8: whatever the raw input, the name handed to collision resolution is
\* the raw input when it matches ^[A-Za-z0-9_-]+$ and "my-backend-app"
\* otherwise, and the resolved project name matches [A-Za-z0-9_-]+.
C8_ValidationTotal ==
  /\ pc = "resolve" =>
       projectName = IF MatchesPattern(answers.projectName)
                       THEN answers.projectName ELSE FallbackName
  /\ pc \notin {"validate", "resolve"} => MatchesPattern(projectName)

\* "../evil" was replaced by the fallback
C8_Witness ==
  /\ pc = "resolve"
  /\ answers.projectName = Evil
  /\ projectName = FallbackName

(***************************************************************************)
(* Properties of the generated entry point and of the dependency lists.    *)
(***************************************************************************)
HasConnectImport(content) ==
  \E i \in DOMAIN content :
    content[i] \in {"import { connectDB } from './config/db';",
                    "import { connectDB } from './config/db.js';"}

HasConnectCall(content) == \E i \in DOMAIN content : content[i] = "connectDB();"

\* C9: for every framework and language, the entry point written holds the
\* import of connectDB and the call connectDB() when a database was chosen,
\* and neither when none was.
C9_EntryPointConnects ==
  \A ext \in {"ts", "js"} :
    ("src/index." \o ext) \in DOMAIN fs.files =>
      LET content == fs.files["src/index." \o ext] IN
        IF answers.db # "none"
          THEN HasConnectImport(content) /\ HasConnectCall(content)
          ELSE ~HasConnectImport(content) /\ ~HasConnectCall(content)

\* the runtime packages of the claim
C10_ExpectedRuntime ==
  (CASE answers.framework = "express" -> {"express", "dotenv", "cors"}
     [] answers.framework = "fastify" -> {"fastify", "dotenv", "cors"}
     [] answers.framework = "hono"    -> {"hono", "dotenv"})
  \cup (CASE answers.db = "mongodb" -> {"mongoose"}
          [] answers.db \in {"postgres", "mysql"} -> {"sequelize", "pg", "mysql2"}
          [] OTHER -> {})

NoDuplicates(list) ==
  \A i, j \in DOMAIN list : list[i] = list[j] => i = j

\* C10: the runtime install is invoked once, with a list that names each
\* package once and is exactly the framework's packages plus those of the
\* database; the dev install is invoked if and only if the language is ts.
C10_DependencyListIsSet ==
  /\ \A i \in DOMAIN invoked :
       invoked[i].cmd = "npm install" =>
         /\ NoDuplicates(invoked[i].pkgs)
         /\ Range(invoked[i].pkgs) = C10_ExpectedRuntime
         /\ \A j \in DOMAIN invoked : invoked[j].cmd = "npm install" => j = i
  /\ \A i \in DOMAIN invoked :
       invoked[i].cmd = "npm install -D" => answers.useTS
  /\ state = "DONE" =>
       (answers.useTS <=>
          \E i \in DOMAIN invoked : invoked[i].cmd = "npm install -D")

(***************************************************************************)
(* Properties of the scaffold under failures.                              *)
(***************************************************************************)
\* the paths of the claim, in program order
C11_ExpectedCalls ==
  LET ext == IF answers.useTS THEN "ts" ELSE "js" IN
  <<"", "src/config", "src/models", "src/controllers", "src/routes",
    "src/index." \o ext>>
  \o (IF answers.db # "none"
        THEN <<"src/config/db." \o ext, "src/models/user.model." \o ext>>
        ELSE <<>>)
  \o (IF answers.db # "none" /\ answers.framework = "express"
        THEN <<"src/controllers/user.controller." \o ext,
               "src/routes/user.route." \o ext>>
        ELSE <<>>)
  \o <<".env", "package.json", ".gitignore", "README.md">>
  \o (IF answers.useTS THEN <<"tsconfig.json">> ELSE <<>>)

ErrorPaths == {fs.errors[i].path : i \in DOMAIN fs.errors}

\* C11: whichever directory creations and file writes fail, the scaffold
\* attempts every creation and write of the run, in program order; each
\* attempt either took effect or was logged with its path; the process has
\* not ended and the call of the install driver is the next step.
C11_PartialFailureTolerant ==
  pc \in {"install", "returned"} =>
    /\ fs.calls = C11_ExpectedCalls
    /\ \A i \in DOMAIN fs.calls :
         \/ fs.calls[i] \in fs.dirs
         \/ fs.calls[i] \in DOMAIN fs.files
         \/ fs.calls[i] \in ErrorPaths
    /\ ~exited
    /\ pc = "install" => ENABLED StartInstall
    /\ pc = "returned" => state = "PROBING" /\ requests = 1

\* a directory creation and a later write failed, later files were written,
\* and installDeps was called
C11_Witness ==
  /\ pc = "returned"
  /\ \E i, j \in DOMAIN fs.errors :
       /\ i < j
       /\ fs.errors[i].what = "Failed to create folder"
       /\ fs.errors[j].what = "Failed to write file"
       /\ fs.errors[j].path # "tsconfig.json"
  /\ "README.md" \in DOMAIN fs.files

(***************************************************************************)
(* Properties of the imports of the generated files.                       *)
(***************************************************************************)
\* the import statements by relative path that the templates can emit, up
\* to the extension, each with the module file it names
LocalImports ==
  {[text |-> "import { connectDB } from './config/db",
    file |-> "src/config/db"],
   [text |-> "import userRoutes from './routes/user.route",
    file |-> "src/routes/user.route"],
   [text |-> "import { sequelize } from '../config/db",
    file |-> "src/config/db"],
   [text |-> "import { User } from '../models/user.model",
    file |-> "src/models/user.model"],
   [text |-> "import { getAllUsers } from '../controllers/user.controller",
    file |-> "src/controllers/user.controller"]}

\* the generated files that are source text (sequences of lines)
SourceFiles(ext) ==
  {"src/index." \o ext, "src/config/db." \o ext,
   "src/models/user.model." \o ext,
   "src/controllers/user.controller." \o ext,
   "src/routes/user.route." \o ext} \cap DOMAIN fs.files

\* file p holds the import m, written for the language ext
Imports(p, m, ext) ==
  \E i \in DOMAIN fs.files[p] :
    fs.files[p][i] = m.text \o (IF ext = "ts" THEN "" ELSE ".js") \o "';"

\* C12: after a scaffold without write failure, every module a generated
\* file imports by relative path is a file of the generated set.
C12_ImportsAreGenerated ==
  (pc \in {"install", "returned"} /\ NoWriteFailures) =>
    \A ext \in {"ts", "js"} :
      \A p \in SourceFiles(ext), m \in LocalImports :
        Imports(p, m, ext) => (m.file \o "." \o ext) \in DOMAIN fs.files

====
